---------------------------- MODULE Spec2Model ----------------------------
(***************************************************************************)
(* Model of src/components/MealPlanManager.tsx: the weekly meal ledger     *)
(* (useState meals / currentDay), the zod form schema guarding onSubmit,   *)
(* and the useEffect that recomputes calories and macro percentages.       *)
(*                                                                         *)
(* JavaScript numbers are modelled exactly: gram values are integers, and  *)
(* the result of a division is an extended rational [num, den] in lowest   *)
(* terms, where den = 0 encodes the IEEE specials: 0/0 is NaN, 1/0 is      *)
(* Infinity and -1/0 is -Infinity.                                         *)
(***************************************************************************)
EXTENDS Integers, Sequences, FiniteSets, TLC

\* Bound on the total number of meals held in the ledger.
MaxMeals == 2

\* src/components/MealPlanManager.tsx:27
DAYS == {"monday", "tuesday", "wednesday", "thursday", "friday", "saturday", "sunday"}

\* Values a submission can carry.  "funday" is a day outside the enum, "A"
\* a one-character name, " B" a two-character name that trimming would
\* shorten to one character, -1 a negative gram value.
DayInputs == DAYS \cup {"funday"}
NameInputs == {"A", " B"}
MacroInputs == {-1, 0, 1}
Candidates ==
    [day : DayInputs, name : NameInputs,
     protein : MacroInputs, carbs : MacroInputs, fat : MacroInputs]

\* The submissions of the component's workflow: every well-formed meal for
\* three of the days (the default day, its neighbour and the last day; the
\* code treats a day only as a key), and one ill-formed submission per rule
\* plus one that breaks every rule.
SubmitDays == {"monday", "tuesday", "sunday"}
Submissions ==
    {v \in Candidates :
        v.day \in SubmitDays /\ v.name = " B"
        /\ v.protein >= 0 /\ v.carbs >= 0 /\ v.fat >= 0}
    \cup {[day |-> "funday", name |-> " B", protein |-> 1, carbs |-> 1, fat |-> 1],
          [day |-> "monday", name |-> "A", protein |-> 1, carbs |-> 0, fat |-> 0],
          [day |-> "tuesday", name |-> " B", protein |-> 0, carbs |-> -1, fat |-> 1],
          [day |-> "funday", name |-> "A", protein |-> -1, carbs |-> -1, fat |-> -1]}

\* useForm defaultValues
defaultValues ==
    [day |-> "monday", name |-> "", protein |-> 0, carbs |-> 0, fat |-> 0]

FIELDS == {"day", "name", "protein", "carbs", "fat"}

VARIABLES
    meals,             \* useState<WeeklyMeals>: day -> sequence of Meal
    currentDay,        \* useState<Meal['day']>
    currentCalories,   \* useState(0)
    macroPercentages,  \* useState({protein, carbs, fat})
    formValues,        \* react-hook-form field values
    formErrors,        \* react-hook-form formState.errors: fields with an issue
    effectPending,     \* a commit changed [meals, currentDay]; the effect has not run yet
    history,           \* history variable: per day, the values passed to onSubmit, in call order
    lastEvent          \* history variable: the event handled last and its argument

vars == <<meals, currentDay, currentCalories, macroPercentages, formValues,
          formErrors, effectPending, history, lastEvent>>

---------------------------------------------------------------------------
\* JavaScript number arithmetic on extended rationals.

Abs(n) == IF n < 0 THEN -n ELSE n
Sign(n) == IF n < 0 THEN -1 ELSE IF n > 0 THEN 1 ELSE 0

RECURSIVE GCD(_, _)
GCD(a, b) == IF b = 0 THEN a ELSE GCD(b, a % b)

\* n / d for integers n, d, as JavaScript's `/` yields it.
Div(n, d) ==
    IF d = 0 THEN [num |-> Sign(n), den |-> 0]
    ELSE LET g == GCD(Abs(n), Abs(d))
         IN  [num |-> (Sign(d) * n) \div g, den |-> Abs(d) \div g]

\* x * k for an extended rational x and an integer k > 0.
Times(x, k) ==
    IF x.den = 0 THEN x ELSE Div(x.num * k, x.den)

NaN == [num |-> 0, den |-> 0]
Zero == [num |-> 0, den |-> 1]

isNaN(x) == x = NaN

---------------------------------------------------------------------------
\* mealFormSchema: the set of fields for which zod reports an issue.  A zod
\* object schema checks every key and collects all issues.

\* Faults: .min(0) missing on carbs; the name trimmed before its length is taken.
mealFormSchema_noMin(values) ==
    {f \in FIELDS :
        \/ f = "day" /\ values.day \notin DAYS
        \/ f = "name" /\ Len(values.name) < 2
        \/ f = "protein" /\ values.protein < 0
        \/ f = "fat" /\ values.fat < 0}

mealFormSchema_trim(values) ==
    {f \in FIELDS :
        \/ f = "day" /\ values.day \notin DAYS
        \/ f = "name" /\ (Len(values.name) < 2 \/ values.name = " B")
        \/ f = "protein" /\ values.protein < 0
        \/ f = "carbs" /\ values.carbs < 0
        \/ f = "fat" /\ values.fat < 0}

mealFormSchema(values) ==
    {f \in FIELDS :
        \/ f = "day" /\ values.day \notin DAYS
        \/ f = "name" /\ Len(values.name) < 2
        \/ f = "protein" /\ values.protein < 0
        \/ f = "carbs" /\ values.carbs < 0
        \/ f = "fat" /\ values.fat < 0}

---------------------------------------------------------------------------
\* calculateTotals.

\* dayMeals.reduce((sum, meal) => sum + meal[f], 0)
RECURSIVE reduce(_, _, _)
reduce(dayMeals, f, sum) ==
    IF dayMeals = <<>> THEN sum
    ELSE reduce(Tail(dayMeals), f, sum + Head(dayMeals)[f])

\* Fault: fat counted at 4 kcal/g.
totalCalories_fat4(totalProtein, totalCarbs, totalFat) ==
    totalProtein * 4 + totalCarbs * 4 + totalFat * 4

totalCalories(totalProtein, totalCarbs, totalFat) ==
    totalProtein * 4 + totalCarbs * 4 + totalFat * 9

proteinPercentage(totalProtein, calories) == Times(Div(totalProtein * 4, calories), 100)
carbsPercentage(totalCarbs, calories) == Times(Div(totalCarbs * 4, calories), 100)
\* Fault: the fat share computed with the factor 4.
fatPercentage_factor4(totalFat, calories) == Times(Div(totalFat * 4, calories), 100)
fatPercentage(totalFat, calories) == Times(Div(totalFat * 9, calories), 100)

\* Fault: the isNaN guard left out.
NaNToZero_unguarded(x) == x

\* isNaN(x) ? 0 : x
NaNToZero(x) == IF isNaN(x) THEN Zero ELSE x

\* Fault: the totals always taken from the default day.
calculateTotals_monday(m, day) ==
    LET dayMeals == m["monday"]
        totalProtein == reduce(dayMeals, "protein", 0)
        totalCarbs == reduce(dayMeals, "carbs", 0)
        totalFat == reduce(dayMeals, "fat", 0)
        calories == totalCalories(totalProtein, totalCarbs, totalFat)
    IN  [currentCalories |-> calories,
         macroPercentages |->
            [protein |-> NaNToZero(proteinPercentage(totalProtein, calories)),
             carbs |-> NaNToZero(carbsPercentage(totalCarbs, calories)),
             fat |-> NaNToZero(fatPercentage(totalFat, calories))]]

\* The values calculateTotals(day) passes to setCurrentCalories and
\* setMacroPercentages, reading the ledger m.
calculateTotals(m, day) ==
    LET dayMeals == m[day]
        totalProtein == reduce(dayMeals, "protein", 0)
        totalCarbs == reduce(dayMeals, "carbs", 0)
        totalFat == reduce(dayMeals, "fat", 0)
        calories == totalCalories(totalProtein, totalCarbs, totalFat)
    IN  [currentCalories |-> calories,
         macroPercentages |->
            [protein |-> NaNToZero(proteinPercentage(totalProtein, calories)),
             carbs |-> NaNToZero(carbsPercentage(totalCarbs, calories)),
             fat |-> NaNToZero(fatPercentage(totalFat, calories))]]

---------------------------------------------------------------------------
\* State and actions.

Init ==
    /\ meals = [d \in DAYS |-> <<>>]
    /\ currentDay = "monday"
    /\ currentCalories = 0
    /\ macroPercentages = [protein |-> Zero, carbs |-> Zero, fat |-> Zero]
    /\ formValues = defaultValues
    /\ formErrors = {}
    /\ effectPending = TRUE      \* effects run after the first render as well
    /\ history = [d \in DAYS |-> <<>>]
    /\ lastEvent = [kind |-> "mount"]

\* Faults: the new meal put first; the meal filed under the viewed day.
setMeals_prepend(prevMeals, values) ==
    [prevMeals EXCEPT ![values.day] = <<values>> \o prevMeals[values.day]]

setMeals_currentDay(prevMeals, values) ==
    [prevMeals EXCEPT ![currentDay] = Append(prevMeals[currentDay], values)]

\* The updater passed to setMeals in onSubmit.
setMeals(prevMeals, values) ==
    [prevMeals EXCEPT ![values.day] = Append(prevMeals[values.day], values)]

\* onSubmit(values): setMeals(...) then form.reset().
onSubmit(values) ==
    /\ meals' = setMeals(meals, values)
    /\ formValues' = defaultValues
    /\ formErrors' = {}
    /\ effectPending' = TRUE
    /\ UNCHANGED <<currentDay, currentCalories, macroPercentages>>

\* Number of meals in the ledger m.
RECURSIVE TotalMeals(_, _)
TotalMeals(m, days) ==
    IF days = {} THEN 0
    ELSE LET d == CHOOSE x \in days : TRUE
         IN  Len(m[d]) + TotalMeals(m, days \ {d})

\* Fault: onSubmit wired to the form without the resolver.
handleSubmit_noResolver(values) ==
    /\ ~effectPending
    /\ lastEvent' = [kind |-> "submit", values |-> values]
    /\ values.day \in DAYS
    /\ TotalMeals(meals, DAYS) < MaxMeals
    /\ onSubmit(values)
    /\ history' = [history EXCEPT ![values.day] = Append(@, values)]

\* form.handleSubmit(onSubmit) on the field values `values`: run the
\* resolver; call onSubmit only when it reports no issue, otherwise publish
\* the issues as field errors and keep the values in the form.
handleSubmit(values) ==
    /\ ~effectPending
    /\ lastEvent' = [kind |-> "submit", values |-> values]
    /\ LET errors == mealFormSchema(values)
       IN  IF errors = {}
           THEN /\ TotalMeals(meals, DAYS) < MaxMeals
                /\ onSubmit(values)
                /\ history' = [history EXCEPT ![values.day] = Append(@, values)]
           ELSE /\ formValues' = values
                /\ formErrors' = errors
                /\ UNCHANGED <<meals, currentDay, currentCalories, macroPercentages,
                               effectPending, history>>

\* Fault: currentDay missing from the effect's dependency list.
setCurrentDay_noDep(value) ==
    /\ ~effectPending
    /\ value # currentDay
    /\ currentDay' = value
    /\ lastEvent' = [kind |-> "select", day |-> value]
    /\ UNCHANGED <<meals, currentCalories, macroPercentages, formValues, formErrors,
                   effectPending, history>>

\* Tabs onValueChange: setCurrentDay(value).  Setting the day already
\* selected is a no-op in React (no render, no effect).
setCurrentDay(value) ==
    /\ ~effectPending
    /\ value # currentDay
    /\ currentDay' = value
    /\ effectPending' = TRUE
    /\ lastEvent' = [kind |-> "select", day |-> value]
    /\ UNCHANGED <<meals, currentCalories, macroPercentages, formValues, formErrors,
                   history>>

\* useEffect(() => calculateTotals(currentDay), [meals, currentDay]).
useEffect ==
    /\ effectPending
    /\ LET totals == calculateTotals(meals, currentDay)
       IN  /\ currentCalories' = totals.currentCalories
           /\ macroPercentages' = totals.macroPercentages
    /\ effectPending' = FALSE
    /\ UNCHANGED <<meals, currentDay, formValues, formErrors, history, lastEvent>>

\* The user fills in the form and presses "Add Meal".
SubmitForm == \E values \in Submissions : handleSubmit(values)

\* The user picks a tab.
SelectTab == \E value \in DAYS : setCurrentDay(value)

Next == SubmitForm \/ SelectTab \/ useEffect

Spec == Init /\ [][Next]_vars

---------------------------------------------------------------------------
\* The form alone: any values typed into the fields, then "Add Meal".

InitForm ==
    /\ meals = [d \in DAYS |-> <<>>]
    /\ currentDay = "monday"
    /\ currentCalories = 0
    /\ macroPercentages = [protein |-> Zero, carbs |-> Zero, fat |-> Zero]
    /\ formValues \in Candidates
    /\ formErrors = {}
    /\ effectPending = FALSE
    /\ history = [d \in DAYS |-> <<>>]
    /\ lastEvent = [kind |-> "mount"]

PressAddMeal == handleSubmit(formValues)

NextForm == PressAddMeal \/ useEffect

SpecForm == InitForm /\ [][NextForm]_vars

---------------------------------------------------------------------------
\* Vocabulary of the properties, stated without the operators above.

\* Sum of field f over the records of s.
RECURSIVE Total(_, _)
Total(s, f) ==
    IF Len(s) = 0 THEN 0
    ELSE Total(SubSeq(s, 1, Len(s) - 1), f) + s[Len(s)][f]

Calories(s) == 4 * Total(s, "protein") + 4 * Total(s, "carbs") + 9 * Total(s, "fat")

\* The stored number x equals the fraction n / d (d > 0).
IsFraction(x, n, d) == x.den > 0 /\ x.num * d = n * x.den

\* The stored summary is summarize(s).
StoredIsSummaryOf(s) ==
    /\ currentCalories = Calories(s)
    /\ IF Calories(s) = 0
       THEN \A f \in {"protein", "carbs", "fat"} : IsFraction(macroPercentages[f], 0, 1)
       ELSE /\ IsFraction(macroPercentages.protein, 400 * Total(s, "protein"), Calories(s))
            /\ IsFraction(macroPercentages.carbs, 400 * Total(s, "carbs"), Calories(s))
            /\ IsFraction(macroPercentages.fat, 900 * Total(s, "fat"), Calories(s))

\* The validation rules, and the fields of v that break one.
PassesRules(v) ==
    /\ v.day \in DAYS
    /\ Len(v.name) >= 2
    /\ v.protein >= 0 /\ v.carbs >= 0 /\ v.fat >= 0

BrokenFields(v) ==
    (IF v.day \in DAYS THEN {} ELSE {"day"})
    \cup (IF Len(v.name) >= 2 THEN {} ELSE {"name"})
    \cup {f \in {"protein", "carbs", "fat"} : v[f] < 0}

Submitted == lastEvent.kind = "submit"

---------------------------------------------------------------------------
\* C1: once the effect has run on a day whose meals total 0 calories (no
\* meal, or only all-zero meals), the stored calories are 0 and the three
\* stored percentages are the number 0, not NaN or an infinity.
C1_ZeroTotalIsZero ==
    (~effectPending /\ Calories(meals[currentDay]) = 0) =>
        /\ currentCalories = 0
        /\ \A f \in {"protein", "carbs", "fat"} :
              /\ macroPercentages[f].den # 0
              /\ macroPercentages[f].num = 0

C1_Witness ==
    /\ ~effectPending
    /\ Submitted /\ lastEvent.values.day = currentDay
    /\ Len(meals[currentDay]) = 2
    /\ Calories(meals[currentDay]) = 0
    /\ macroPercentages.fat = Zero

\* C2: once the effect has run on a day on which some macro total is
\* positive, the three stored percentages add up to exactly 100.
C2_PercentagesSumTo100 ==
    LET s == meals[currentDay]
        p == macroPercentages.protein
        c == macroPercentages.carbs
        f == macroPercentages.fat
    IN  (/\ ~effectPending
         /\ (Total(s, "protein") > 0 \/ Total(s, "carbs") > 0 \/ Total(s, "fat") > 0))
        => /\ p.den > 0 /\ c.den > 0 /\ f.den > 0
           /\ p.num * c.den * f.den + c.num * p.den * f.den + f.num * p.den * c.den
                = 100 * p.den * c.den * f.den

C2_Witness ==
    /\ ~effectPending
    /\ Total(meals[currentDay], "protein") = 2
    /\ Total(meals[currentDay], "carbs") = 1
    /\ Total(meals[currentDay], "fat") = 1
    /\ macroPercentages.protein = [num |-> 800, den |-> 21]
    /\ macroPercentages.fat = [num |-> 300, den |-> 7]

\* C3: once the effect has run, the stored calories are 4*P + 4*C + 9*F for
\* the sums P, C, F over the day's meals, and when that is positive the
\* stored percentages are 4*P/calories*100, 4*C/calories*100 and
\* 9*F/calories*100, unrounded.
C3_CaloriesAndShares ==
    LET s == meals[currentDay]
        P == Total(s, "protein")
        C == Total(s, "carbs")
        F == Total(s, "fat")
        cal == 4 * P + 4 * C + 9 * F
    IN  ~effectPending =>
           /\ currentCalories = cal
           /\ cal > 0 =>
                 /\ macroPercentages.protein.den > 0
                 /\ macroPercentages.protein.num * cal = 4 * P * 100 * macroPercentages.protein.den
                 /\ macroPercentages.carbs.den > 0
                 /\ macroPercentages.carbs.num * cal = 4 * C * 100 * macroPercentages.carbs.den
                 /\ macroPercentages.fat.den > 0
                 /\ macroPercentages.fat.num * cal = 9 * F * 100 * macroPercentages.fat.den

\* Meals (1,1,1) and (0,0,0): 4 + 4 + 9 = 17 calories.
C3_Witness ==
    /\ ~effectPending
    /\ Len(meals[currentDay]) = 2
    /\ meals[currentDay][1].protein = 1 /\ meals[currentDay][1].carbs = 1
    /\ meals[currentDay][1].fat = 1
    /\ meals[currentDay][2].protein = 0 /\ meals[currentDay][2].carbs = 0
    /\ meals[currentDay][2].fat = 0
    /\ currentCalories = 17
    /\ macroPercentages.fat = [num |-> 900, den |-> 17]

\* C4: for every day, the ledger's list is exactly the sequence of values
\* passed to onSubmit for that day, in call order: N calls give length N,
\* nothing reordered, merged or dropped.
C4_AppendOnly ==
    \A d \in DAYS : meals[d] = history[d]

C4_Witness ==
    \E d \in DAYS :
        /\ Len(history[d]) = 2
        /\ history[d][1] # history[d][2]
        /\ meals[d] = history[d]
        /\ d # currentDay

\* C5: every record in the ledger satisfies the validation rules and is
\* stored under its own day.
C5_StoredRecordsValid ==
    \A d \in DOMAIN meals :
        \A i \in 1..Len(meals[d]) :
            PassesRules(meals[d][i]) /\ meals[d][i].day = d

C5_Witness ==
    /\ Submitted /\ ~PassesRules(lastEvent.values)
    /\ \E d \in DAYS : Len(meals[d]) = 2

\* C6: a submission is accepted (reaches the ledger) exactly when its day is
\* one of the seven, its name has at least 2 characters untrimmed, and no
\* macro is negative; when it is rejected, the fields reported are exactly
\* the fields that break their own rule.
C6_ValidateIffRules ==
    [][(~effectPending /\ lastEvent'.kind = "submit") =>
          /\ (meals' # meals) <=> PassesRules(lastEvent'.values)
          /\ formErrors' = BrokenFields(lastEvent'.values)]_vars

C6_Witness ==
    /\ Submitted
    /\ lastEvent.values.name = "A" /\ lastEvent.values.protein = -1
    /\ lastEvent.values.day = "friday"
    /\ lastEvent.values.carbs = 1 /\ lastEvent.values.fat = 0
    /\ formErrors = {"name", "protein"}
    /\ \A d \in DAYS : meals[d] = <<>>

\* C7 as stated: in every state the stored summary is that of the selected
\* day's current list.
C7_SummaryAlwaysCurrent ==
    StoredIsSummaryOf(meals[currentDay])

\* C7 amended: whenever no run of the effect is pending, the stored summary
\* is that of the selected day's current list.
C7_SummaryCurrentAfterEffect ==
    ~effectPending => StoredIsSummaryOf(meals[currentDay])

C7_Witness ==
    /\ ~effectPending
    /\ lastEvent.kind = "select"
    /\ Len(meals[currentDay]) = 1
    /\ currentCalories = 17
    /\ \E d \in DAYS : d # currentDay /\ Len(meals[d]) = 1 /\ Calories(meals[d]) = 4

\* C8: a submission that breaks a rule changes neither the ledger nor the
\* selected day nor the stored summary, and does not reach onSubmit.
C8_RejectedLeavesLedger ==
    [][(~effectPending /\ lastEvent'.kind = "submit" /\ ~PassesRules(lastEvent'.values)) =>
          /\ meals' = meals
          /\ currentDay' = currentDay
          /\ currentCalories' = currentCalories
          /\ macroPercentages' = macroPercentages
          /\ history' = history
          /\ ~effectPending']_vars

C8_Witness ==
    /\ Submitted /\ ~PassesRules(lastEvent.values)
    /\ formErrors = {"carbs"}
    /\ Len(meals["tuesday"]) = 1
    /\ currentDay = "tuesday"
    /\ currentCalories = 17

\* C9: a step that adds a meal leaves the list of every other day as it
\* was, keeps the ledger's keys the seven days and keeps the selected day.
C9_AddTouchesOneDay ==
    [][(history' # history) =>
          /\ \A d \in DAYS \ {lastEvent'.values.day} : meals'[d] = meals[d]
          /\ DOMAIN meals' = DAYS
          /\ currentDay' = currentDay]_vars

C9_Witness ==
    /\ Submitted /\ PassesRules(lastEvent.values)
    /\ effectPending
    /\ lastEvent.values.day # currentDay
    /\ Len(meals[lastEvent.values.day]) = 1
    /\ Len(meals[currentDay]) = 1

\* C10: adding a meal to a day other than the selected one schedules the
\* effect, and that run of the effect stores the values already stored;
\* after a day is selected and the effect has run, the stored summary is
\* that of the selected day's list alone.
C10_OnlySelectedDayCounts ==
    /\ [][(history' # history) => effectPending']_vars
    /\ [][(/\ effectPending /\ ~effectPending'
           /\ Submitted /\ lastEvent.values.day # currentDay) =>
             /\ currentCalories' = currentCalories
             /\ macroPercentages' = macroPercentages]_vars
    /\ [](~effectPending /\ lastEvent.kind = "select"
            => currentDay = lastEvent.day /\ StoredIsSummaryOf(meals[lastEvent.day]))

C10_Witness ==
    /\ ~effectPending
    /\ Submitted /\ PassesRules(lastEvent.values)
    /\ lastEvent.values.day # currentDay
    /\ Calories(meals[lastEvent.values.day]) = 17
    /\ Len(meals[currentDay]) = 1
    /\ currentCalories = 4

=============================================================================
